---- MODULE Spec2Model ----
(***************************************************************************)
(* Model of scripts/run_test.py (with the helpers of scripts/common.py it  *)
(* calls): the artifact cache reconciler, the execution directory          *)
(* assembler, the supervised server run and the outcome classification.    *)
(*                                                                         *)
(* One invocation of main() is a sequence of steps; pc names the next      *)
(* statement.  The disk (cache-state file, cache directories, execution    *)
(* directory) persists from one invocation to the next.  An invocation     *)
(* may be killed at any step (Kill), may raise (Raise) or may exit.        *)
(***************************************************************************)
EXTENDS Integers, Sequences, FiniteSets, TLC

\* ---------------------------------------------------------------- bounds
\* Largest exit status the supervised process is given in the model.
MaxReturnCode == 1
\* Largest number of files the supervised process leaves in crash-reports.
MaxCrashReports == 1
\* Number of invocations of the script that are followed, one after another.
MaxInvocations == 2

\* ------------------------------------------------------- program constants
PACKWIZ_BOOTSTRAP_VERSION == "v0.0.3"
MC_TEST_INJECTOR_VERSION == "v1.0.0"

\* Python's None; also what a JSON null loads to.
None == "<None>"

\* The three artifact kinds, by their key in the cache state, in the order
\* main() reconciles them.
KindOrder == <<"server", "pw_bootstrap", "mc-test-injector">>
Kinds == {KindOrder[i] : i \in 1..Len(KindOrder)}

\* ------------------------------------------------------------ directories
\* A directory on disk: whether it exists, and the relative paths in it.
NoDir == [exists |-> FALSE, entries |-> {}]
EmptyDir == [exists |-> TRUE, entries |-> {}]
DirOf(S) == [exists |-> TRUE, entries |-> S]

\* Path.mkdir(exist_ok=True, parents=True)
mkdir(d) == IF d.exists THEN d ELSE EmptyDir

\* (dir / name).exists()
PathExists(d, name) == d.exists /\ name \in d.entries

\* What the installers of each kind can put into the kind's directory.
ServerFiles == {"fabric-server-launch.jar", "user_jvm_args.txt", "libraries"}
PackwizFiles == {"packwiz_bootstrap.jar", "packwiz-installer.jar"}
InjectorFiles == {"McTestInjector.jar"}
KindFiles(k) ==
  CASE k = "server" -> ServerFiles
    [] k = "pw_bootstrap" -> PackwizFiles
    [] OTHER -> InjectorFiles

\* ----------------------------------------------------------- common.hash
\* hasher.update(value) for each value, then hexdigest(): the digest of the
\* concatenated bytes.  SHA-256 is taken to be injective on the bytes fed,
\* so the digest is represented by those bytes.
RECURSIVE hash(_)
hash(values) ==
  IF values = << >> THEN ""
  ELSE Head(values) \o hash(Tail(values))

\* ------------------------------------------------ common.parse_packwiz
supported_loaders == {"fabric", "neoforge"}

\* version_data is the [versions] table of pack.toml: a function from keys
\* to version strings.  The result is a PackwizPackInfo or an exception.
ConfigError(msg) == [ok |-> FALSE, error |-> msg,
                     minecraft_version |-> "", loader |-> "", loader_version |-> ""]
\* Parsing without the loop of lines 156-158 over the version keys.
parse_packwiz_lenient(version_data) ==
  LET loaders == DOMAIN version_data \cap supported_loaders
  IN  IF "minecraft" \notin DOMAIN version_data
        THEN ConfigError("pack.toml doesn't define a minecraft version")
      ELSE IF Cardinality(loaders) >= 2
        THEN ConfigError("pack is using multiple loaders")
      ELSE IF Cardinality(loaders) = 0
        THEN ConfigError("pack does not seem to define a loader")
      ELSE LET loader == CHOOSE l \in loaders : TRUE
           IN  [ok |-> TRUE, error |-> "",
                minecraft_version |-> version_data["minecraft"],
                loader |-> loader,
                loader_version |-> version_data[loader]]

parse_packwiz(version_data) ==
  LET loaders == DOMAIN version_data \cap supported_loaders
  IN  IF "minecraft" \notin DOMAIN version_data
        THEN ConfigError("pack.toml doesn't define a minecraft version")
      ELSE IF Cardinality(loaders) >= 2
        THEN ConfigError("pack is using multiple loaders")
      ELSE IF Cardinality(loaders) = 0
        THEN ConfigError("pack does not seem to define a loader")
      ELSE IF \E v \in DOMAIN version_data :
                 v \notin {"minecraft", "unsup"} /\ v \notin supported_loaders
        THEN ConfigError("pack is using unsupported software")
      ELSE LET loader == CHOOSE l \in loaders : TRUE
           IN  [ok |-> TRUE, error |-> "",
                minecraft_version |-> version_data["minecraft"],
                loader |-> loader,
                loader_version |-> version_data[loader]]

\* ------------------------------------------------------------- validators
\* Validation of the server that looks at the marker file only.
validate_server_marker_only(loader, server_dir) ==
  IF loader = "fabric" /\ ~PathExists(server_dir, "fabric-server-launch.jar")
    THEN "Fabric servers should have a fabric-server-launch.jar"
  ELSE IF loader = "neoforge" /\ ~PathExists(server_dir, "user_jvm_args.txt")
    THEN "NeoForge should set up a user_jvm_args.txt file"
  ELSE None

validate_server(loader, server_dir) ==
  IF loader = "fabric" /\ ~PathExists(server_dir, "fabric-server-launch.jar")
    THEN "Fabric servers should have a fabric-server-launch.jar"
  ELSE IF loader = "neoforge" /\ ~PathExists(server_dir, "user_jvm_args.txt")
    THEN "NeoForge should set up a user_jvm_args.txt file"
  ELSE IF ~PathExists(server_dir, "libraries")
    THEN "The server directory should have a libraries folder"
  ELSE None

validate_packwiz(packwiz_dir) ==
  IF ~PathExists(packwiz_dir, "packwiz_bootstrap.jar")
    THEN "packwiz_bootstrap.jar should exist"
  ELSE None

validate_test_injector(packwiz_dir) ==
  IF ~PathExists(packwiz_dir, "McTestInjector.jar")
    THEN "McTestInjector.jar should exist"
  ELSE None

\* The validator main() applies to kind k.
Validate(k, loader, dir) ==
  CASE k = "server" -> validate_server(loader, dir)
    [] k = "pw_bootstrap" -> validate_packwiz(dir)
    [] OTHER -> validate_test_injector(dir)

\* ------------------------------------------------------------- JSON state
\* A cache state in memory is a Python dict: a function from keys to
\* values.  dict.get(key) is None for a missing key.
EmptyDict == [x \in {} |-> None]
Get(d, key) == IF key \in DOMAIN d THEN d[key] ELSE None
\* d[key] = value
Put(d, key, value) ==
  [x \in DOMAIN d \cup {key} |-> IF x = key THEN value ELSE d[x]]

\* The keys the model's dicts can hold, in Python's string order.
SortedKeys == <<"mc-test-injector", "pw_bootstrap", "script_version", "server">>

\* json.dumps(state, sort_keys=True): the members in sorted key order.
RECURSIVE dumps_from(_, _)
dumps_from(d, i) ==
  IF i > Len(SortedKeys) THEN << >>
  ELSE IF SortedKeys[i] \in DOMAIN d
    THEN <<[key |-> SortedKeys[i], value |-> d[SortedKeys[i]]]>> \o dumps_from(d, i + 1)
  ELSE dumps_from(d, i + 1)
\* json.dumps without sort_keys: the members in another order.
RECURSIVE dumps_back_from(_, _)
dumps_back_from(d, i) ==
  IF i < 1 THEN << >>
  ELSE IF SortedKeys[i] \in DOMAIN d
    THEN <<[key |-> SortedKeys[i], value |-> d[SortedKeys[i]]]>> \o dumps_back_from(d, i - 1)
  ELSE dumps_back_from(d, i - 1)
json_dumps_unsorted(d) == dumps_back_from(d, Len(SortedKeys))

json_dumps(d) == dumps_from(d, 1)

\* json.loads of the text of an object: the dict of its members.
json_loads(text) ==
  [x \in {text[i].key : i \in 1..Len(text)} |->
     LET i == CHOOSE j \in 1..Len(text) : text[j].key = x IN text[i].value]

\* A file holding JSON: absent, not parseable as JSON ("unparseable"),
\* parseable to something that is not an object, such as [] or null
\* ("nonobject"), or the text of an object ("object").
AbsentFile == [st |-> "absent", text |-> << >>]
UnparseableFile == [st |-> "unparseable", text |-> << >>]
NonObjectFile == [st |-> "nonobject", text |-> << >>]
ObjectFile(text) == [st |-> "object", text |-> text]

\* save_cache_state: state["script_version"] = 1 (in place), then the file
\* is overwritten with json.dumps(state, sort_keys=True).
stamped(state) == Put(state, "script_version", 1)
save_cache_state(state) == ObjectFile(json_dumps(stamped(state)))

\* Loading that forgets what the file holds: always the empty state.
load_cache_state_forgetful(file) == [isdict |-> TRUE, d |-> EmptyDict]

\* Loading without the try/except of lines 85-89: text that does not parse
\* gives no dict to go on with.
load_cache_state_uncaught(file) ==
  IF file.st = "absent" THEN [isdict |-> TRUE, d |-> EmptyDict]
  ELSE IF file.st = "object" THEN [isdict |-> TRUE, d |-> json_loads(file.text)]
  ELSE [isdict |-> FALSE, d |-> EmptyDict]

\* Lines 84-91 of main(): the value cached_state is bound to.  isdict tells
\* whether it is a dict (the only kind of value that has .get).
load_cache_state(file) ==
  IF file.st = "absent" THEN [isdict |-> TRUE, d |-> EmptyDict]
  ELSE IF file.st = "unparseable" THEN [isdict |-> TRUE, d |-> EmptyDict]
  ELSE IF file.st = "nonobject" THEN [isdict |-> FALSE, d |-> EmptyDict]
  ELSE [isdict |-> TRUE, d |-> json_loads(file.text)]

\* The fingerprint the file on disk records for kind k (None if none).
StoredFingerprint(file, k) ==
  IF file.st = "object" THEN Get(json_loads(file.text), k) ELSE None

\* ------------------------------------------------------------- installers
\* Each setup_* is given the target directory, and what the network and the
\* third-party installer did: whether the download succeeded, and which
\* entries ended up written.  The result is the directory afterwards and
\* whether the function raised.

\* setup_server without the validation of lines 263-265.
setup_server_unvalidated(loader, directory, downloaded, produced) ==
  IF loader \notin {"fabric", "neoforge"} \/ ~downloaded
    THEN [raised |-> TRUE, dir |-> mkdir(directory)]
  ELSE [raised |-> FALSE, dir |-> DirOf(mkdir(directory).entries \cup produced)]

\* setup_server: mkdir, download the installer jar, run it (its exit status
\* is not looked at), then validate the result.
setup_server(loader, directory, downloaded, produced) ==
  IF loader \notin {"fabric", "neoforge"}
    THEN [raised |-> TRUE, dir |-> mkdir(directory)]
  ELSE IF ~downloaded
    THEN [raised |-> TRUE, dir |-> mkdir(directory)]
  ELSE LET d == DirOf(mkdir(directory).entries \cup produced)
       IN  [raised |-> validate_server(loader, d) # None, dir |-> d]

\* setup_packwiz_bootstrap: mkdir, urlretrieve to packwiz_bootstrap.jar.
\* A failed download leaves the file absent or incomplete (produced).
setup_packwiz_bootstrap(directory, downloaded, produced) ==
  IF downloaded
    THEN [raised |-> FALSE,
          dir |-> DirOf(mkdir(directory).entries \cup {"packwiz_bootstrap.jar"})]
  ELSE [raised |-> TRUE,
        dir |-> DirOf(mkdir(directory).entries \cup (produced \cap {"packwiz_bootstrap.jar"}))]

\* setup_mc_test_injector: mkdir, urlretrieve to McTestInjector.jar.
setup_mc_test_injector(directory, downloaded, produced) ==
  IF downloaded
    THEN [raised |-> FALSE,
          dir |-> DirOf(mkdir(directory).entries \cup {"McTestInjector.jar"})]
  ELSE [raised |-> TRUE,
        dir |-> DirOf(mkdir(directory).entries \cup (produced \cap {"McTestInjector.jar"}))]

\* The installer main() calls for kind k.
Setup(k, loader, directory, downloaded, produced) ==
  CASE k = "server" -> setup_server(loader, directory, downloaded, produced)
    [] k = "pw_bootstrap" -> setup_packwiz_bootstrap(directory, downloaded, produced)
    [] OTHER -> setup_mc_test_injector(directory, downloaded, produced)

\* ------------------------------------------------------------ model inputs
\* [versions] tables of pack.toml the invocations are given.
Table(keys, mc, lv) ==
  [x \in keys |-> IF x = "minecraft" THEN mc ELSE lv]
ValidManifests ==
  { Table({"minecraft", "fabric"}, "1.21", "0.15.0"),
    Table({"minecraft", "fabric"}, "1.20", "0.15.0"),
    Table({"minecraft", "neoforge", "unsup"}, "1.21", "21.1.64") }
InvalidManifests ==
  { Table({"fabric"}, "1.21", "0.15.0"),
    Table({"minecraft"}, "1.21", "0.15.0"),
    Table({"minecraft", "fabric", "neoforge"}, "1.21", "0.15.0"),
    Table({"minecraft", "fabric", "quilt"}, "1.21", "0.15.0") }
Manifests == ValidManifests \cup InvalidManifests

\* Fingerprints a cache-state file found on disk may hold for each kind:
\* the ones this build writes, and one of an older build.
ServerFingerprints ==
  { hash(<<parse_packwiz(m).minecraft_version, parse_packwiz(m).loader,
           parse_packwiz(m).loader_version>>) : m \in ValidManifests }
KnownFingerprints(k) ==
  CASE k = "server" -> ServerFingerprints
    [] k = "pw_bootstrap" -> {PACKWIZ_BOOTSTRAP_VERSION, "v0.0.2"}
    [] OTHER -> {MC_TEST_INJECTOR_VERSION, "v0.9.0"}

\* Cache states a file found on disk may hold: per kind no record or a
\* fingerprint (a null is what main() itself writes when it invalidates).
InitDicts ==
  { d \in [Kinds -> {"<absent>"} \cup UNION {KnownFingerprints(k) : k \in Kinds}] :
      \A k \in Kinds : d[k] \in {"<absent>"} \cup KnownFingerprints(k) }
DictOf(d) ==
  stamped([k \in {x \in Kinds : d[x] # "<absent>"} |-> d[k]])
InitFiles ==
  {AbsentFile, UnparseableFile, NonObjectFile}
    \cup {ObjectFile(json_dumps(DictOf(d))) : d \in InitDicts}

\* Directories found on disk.
InitDirs(k) ==
  CASE k = "server" ->
         { DirOf({}), DirOf({"fabric-server-launch.jar"}),
           DirOf({"fabric-server-launch.jar", "libraries"}),
           DirOf({"user_jvm_args.txt", "libraries"}),
           DirOf(ServerFiles) }
    [] k = "pw_bootstrap" ->
         { DirOf({}), DirOf({"packwiz-installer.jar"}), DirOf({"packwiz_bootstrap.jar"}) }
    [] OTHER -> { DirOf({}), DirOf({"McTestInjector.jar"}) }

RuntimeEntries == {".fabric", ".connector", ".fabric/remapped.jar"}
InitRuntime == {DirOf(RuntimeEntries)}

\* ------------------------------------------------- execution directory
\* An entry of the execution directory: a plain directory ("dir"), a plain
\* file ("file"), or a symbolic link to a directory ("dirlink") or to a
\* file ("filelink") with the path it points to.
Entry(path, type, target) == [path |-> path, type |-> type, target |-> target]
NoExec == [exists |-> FALSE, entries |-> {}]
ExecOf(E) == [exists |-> TRUE, entries |-> E]
ExecPaths(x) == {e.path : e \in x.entries}
EntryAt(x, p) == CHOOSE e \in x.entries : e.path = p

\* The parent directory of a relative path ("" for a top-level path).
Parent(p) ==
  CASE p = "mods/a.jar" -> "mods"
    [] p = "mods/.connector" -> "mods"
    [] p = "config/b.toml" -> "config"
    [] p = "libraries/x.jar" -> "libraries"
    [] p = ".fabric/remapped.jar" -> ".fabric"
    [] OTHER -> ""

\* Entries of the cached server directory that are directories.
ServerDirNames == {"libraries"}

\* Trees the pack synchronisation leaves in the pack directory: the files,
\* and the directories that hold them.
PackFiles == {"mods/a.jar", "config/b.toml", "libraries/x.jar"}
PackTrees ==
  { {}, {"mods/a.jar"}, {"mods/a.jar", "config/b.toml"},
    {"mods/a.jar", "libraries/x.jar"} }
TreeOf(files) == DirOf(files \cup {Parent(f) : f \in files})

\* What is left in the execution directory by an earlier run.
StaleExec == ExecOf({Entry("world", "dir", ""), Entry("eula.txt", "file", "")})

\* How exec_dir / q resolves when a file is to be created below it:
\*   "missing"  nothing is there
\*   "plain"    a plain directory of the execution directory
\*   "through"  a link to a directory of the cached server directory
\*   "notdir"   a file, or a link to a file
Resolve(x, q) ==
  IF q \notin ExecPaths(x) THEN "missing"
  ELSE LET e == EntryAt(x, q)
       IN  IF e.type = "dir" THEN "plain"
           ELSE IF e.type = "dirlink" THEN "through"
           ELSE "notdir"

\* Lines 180-181: one link per top-level entry of the cached server
\* directory, target_is_directory=f.is_dir().
link_server(x, server_dir) ==
  ExecOf(x.entries \cup
    { Entry(f, IF f \in ServerDirNames THEN "dirlink" ELSE "filelink", "server/" \o f) :
        f \in {g \in server_dir.entries : Parent(g) = ""} })

\* Lines 182-189 for one pack file f: does dest.parent.mkdir or os.symlink
\* raise (FileExistsError)?
pack_link_raises(x, server_dir, f) ==
  IF Parent(f) = "" THEN f \in ExecPaths(x)
  ELSE CASE Resolve(x, Parent(f)) = "notdir" -> TRUE
         [] Resolve(x, Parent(f)) = "through" -> f \in server_dir.entries
         [] OTHER -> f \in ExecPaths(x)

\* The execution directory after the pack files in fs have been linked.
link_pack(x, fs) ==
  ExecOf(x.entries
    \cup { Entry(Parent(f), "dir", "") :
             f \in {g \in fs : Parent(g) # "" /\ Resolve(x, Parent(g)) = "missing"} }
    \cup { Entry(f, "filelink", "pack/" \o f) :
             f \in {g \in fs : Parent(g) = "" \/ Resolve(x, Parent(g)) # "through"} })

\* The cached server directory after the pack files in fs have been linked:
\* a link created below a linked directory lands in the directory linked to.
link_pack_server(x, server_dir, fs) ==
  DirOf(server_dir.entries
    \cup {f \in fs : Parent(f) # "" /\ Resolve(x, Parent(f)) = "through"})

\* ------------------------------------------------------------ run_server
\* " ".join(java_args)
RECURSIVE join(_)
join(args) ==
  IF args = << >> THEN ""
  ELSE IF Len(args) = 1 THEN args[1]
  ELSE args[1] \o " " \o join(Tail(args))

\* The environment of a child: os.environ when subprocess.run is given no
\* env, else the dict it is given and nothing more.
Inherited == [inherited |-> TRUE, vars |-> EmptyDict]
Environment(vars) == [inherited |-> FALSE, vars |-> vars]

\* Nothing has been started.
NoLaunch == [raised |-> TRUE, argv |-> << >>, env |-> Inherited]

\* run_server with the -javaagent argument on the command line for every
\* loader.
run_server_flag_only(loader, java_args, mc_args) ==
  IF loader = "fabric"
    THEN [raised |-> FALSE,
          argv |-> <<"java">> \o java_args \o <<"-jar", "exec/fabric-server-launch.jar">> \o mc_args,
          env |-> Inherited]
  ELSE IF loader = "neoforge"
    THEN [raised |-> FALSE,
          argv |-> <<"exec/run.sh">> \o java_args \o mc_args,
          env |-> Environment(Put(EmptyDict, "PATH", "java.parent:PATH"))]
  ELSE NoLaunch

\* Lines 300-320: the one subprocess.run of the loader's branch, or
\* RuntimeError for a loader that has none.
run_server(loader, java_args, mc_args) ==
  IF loader = "fabric"
    THEN [raised |-> FALSE,
          argv |-> <<"java">> \o java_args \o <<"-jar", "exec/fabric-server-launch.jar">> \o mc_args,
          env |-> Inherited]
  ELSE IF loader = "neoforge"
    THEN [raised |-> FALSE,
          argv |-> <<"exec/run.sh">> \o mc_args,
          env |-> Environment(
                    Put(IF Len(java_args) > 0
                          THEN Put(EmptyDict, "JDK_JAVA_OPTIONS", join(java_args))
                          ELSE EmptyDict,
                        "PATH", "java.parent:PATH"))]
  ELSE NoLaunch

\* A call of run_server: what it was given and what came of it.
Call(loader, java_args, out) == [loader |-> loader, java_args |-> java_args, out |-> out]
NoChild == Call("", << >>, NoLaunch)

\* Lines 215-216 of main(): java_args and mc_args.
JavaAgent == <<"-javaagent:McTestInjector.jar">>
McArgs == <<"--nogui">>

\* ------------------------------------------------------------------ state
VARIABLES
  \* the disk
  cache_state_file,     \* cache-static/cache_state.json
  cached_dir,           \* cache-static/server, /packwiz, /mc-test-injector, by kind
  runtime_cache,        \* cache-dynamic/runtime
  cached_pack_dir,      \* cache-dynamic/pack
  exec_dir,             \* exec
  desired_state_file,   \* desired_cache_state_for_static_cache.json
  \* the inputs of the running invocation
  version_data,         \* [versions] of pack.toml
  generate_only,        \* GENERATE_DESIRED_CACHE_STATE_AND_EXIT == "true"
  \* the locals of main()
  pc,                   \* the next statement
  kind,                 \* index in KindOrder of the kind being reconciled
  pack_info,
  desired_cache_state,
  cached_state,
  returncode,           \* result.returncode
  result,               \* what run_server handed back to main()
  child,                \* the call of run_server: its arguments, and the
                        \* command line and environment of the process
  \* how the invocation ended
  exit_code,            \* the exit status of the script, -1 while there is none
  error,                \* the exception that ended it, "" if none
  \* history of the running invocation
  installs,             \* by kind, the number of calls of its installer
  deletes,              \* by kind, the number of rmtree of its directory
  repairing,            \* by kind, deleted and not yet reinstalled
  start,                \* by kind, what was on disk when reconciliation started:
                        \* "missing" (no fingerprint), "stale" (another one),
                        \* "invalid" (the desired one, validation fails), "hit"
  reconciled,           \* all three kinds have been reconciled
  launched,             \* the number of supervised processes launched
  loaded,               \* what the cache-state file was when it was loaded
  invocations,          \* the number of invocations started
  prev                  \* the invocation before: its pack_info if it reconciled
                        \* all kinds, the kind whose installer raised if one did

disk == <<cache_state_file, cached_dir, runtime_cache, cached_pack_dir, exec_dir,
          desired_state_file>>
inputs == <<version_data, generate_only>>
locals == <<kind, pack_info, desired_cache_state, cached_state, returncode, result, child>>
ending == <<exit_code, error>>
history == <<installs, deletes, repairing, start, reconciled, launched, loaded, invocations, prev>>
vars == <<disk, inputs, pc, locals, ending, history>>

K == KindOrder[kind]

NoInfo == ConfigError("")
NoDesired == [k \in Kinds |-> ""]
NoState == [isdict |-> TRUE, d |-> EmptyDict]
NoStart == [k \in Kinds |-> "unknown"]
Zero == [k \in Kinds |-> 0]
Nowhere == [k \in Kinds |-> FALSE]
NoPrev == [info |-> NoInfo, failed |-> "none"]

\* The result of run_server: nothing is bound to it until subprocess.run
\* returns; the CompletedProcess it returns then has args, returncode,
\* stdout and stderr, and no field that tells of a timeout.
NoResult == [bound |-> FALSE, timed_out |-> FALSE]
CompletedProcess == [bound |-> TRUE, timed_out |-> FALSE]

Init ==
  /\ cache_state_file \in InitFiles
  /\ cached_dir \in [Kinds -> UNION {InitDirs(k) : k \in Kinds}]
  /\ \A k \in Kinds : cached_dir[k] \in InitDirs(k)
  /\ runtime_cache \in InitRuntime
  /\ cached_pack_dir = NoDir
  /\ exec_dir = StaleExec
  /\ desired_state_file = AbsentFile
  /\ version_data = Table({}, "", "")
  /\ generate_only = FALSE
  /\ pc = "idle"
  /\ kind = 1
  /\ pack_info = NoInfo
  /\ desired_cache_state = NoDesired
  /\ cached_state = NoState
  /\ returncode = 0
  /\ result = NoResult
  /\ child = NoChild
  /\ exit_code = -1
  /\ error = ""
  /\ installs = Zero
  /\ deletes = Zero
  /\ repairing = Nowhere
  /\ start = NoStart
  /\ reconciled = FALSE
  /\ launched = 0
  /\ loaded = ""
  /\ invocations = 0
  /\ prev = NoPrev

\* The script ends: by an uncaught exception (exit status 1), or by
\* sys.exit / falling off main().
Raise(exc) ==
  /\ pc' = "done"
  /\ exit_code' = 1
  /\ error' = exc

Exit(code) ==
  /\ pc' = "done"
  /\ exit_code' = code
  /\ error' = ""

\* ------------------------------------------------------------- invocation
\* The script is started: on the disk the last invocation left, with a
\* pack.toml and an environment.
Begin(m, gen) ==
  /\ pc \in {"idle", "done"}
  /\ invocations < MaxInvocations
  /\ invocations' = invocations + 1
  /\ version_data' = m
  /\ generate_only' = gen
  /\ pc' = "parse"
  /\ kind' = 1
  /\ pack_info' = NoInfo
  /\ desired_cache_state' = NoDesired
  /\ cached_state' = NoState
  /\ returncode' = 0
  /\ result' = NoResult
  /\ child' = NoChild
  /\ exit_code' = -1
  /\ error' = ""
  /\ installs' = Zero
  /\ deletes' = Zero
  /\ repairing' = Nowhere
  /\ start' = NoStart
  /\ reconciled' = FALSE
  /\ launched' = 0
  /\ loaded' = ""
  /\ prev' = [info |-> IF reconciled THEN pack_info ELSE NoInfo,
              failed |-> IF error = "installer" THEN K ELSE "none"]
  /\ UNCHANGED disk

\* Lines 38-48: pack_info = common.parse_packwiz(pack_toml_file)
Parse ==
  /\ pc = "parse"
  /\ LET info == parse_packwiz(version_data)
     IN  IF info.ok
           THEN /\ pack_info' = info
                /\ pc' = "mkdirs"
                /\ UNCHANGED ending
           ELSE /\ Raise("config")
                /\ UNCHANGED pack_info
  /\ UNCHANGED <<disk, inputs, kind, desired_cache_state, cached_state, returncode, result, child, history>>

\* Lines 65-70: every cache directory and the execution directory is made
\* if it is not there.
Mkdirs ==
  /\ pc = "mkdirs"
  /\ cached_dir' = [k \in Kinds |-> mkdir(cached_dir[k])]
  /\ cached_pack_dir' = mkdir(cached_pack_dir)
  /\ runtime_cache' = mkdir(runtime_cache)
  /\ exec_dir' = IF exec_dir.exists THEN exec_dir ELSE ExecOf({})
  /\ pc' = "desired"
  /\ UNCHANGED <<cache_state_file, desired_state_file, inputs, locals, ending, history>>

\* Lines 72-81: the desired cache state; with the override it is written
\* out and the script exits.
DesiredState(info) ==
  [k \in Kinds |->
     CASE k = "server" ->
            hash(<<info.minecraft_version, info.loader, info.loader_version>>)
       [] k = "pw_bootstrap" -> PACKWIZ_BOOTSTRAP_VERSION
       [] OTHER -> MC_TEST_INJECTOR_VERSION]

\* The desired cache state without the override of lines 78-81.
Desired_without_override ==
  /\ pc = "desired"
  /\ desired_cache_state' = DesiredState(pack_info)
  /\ pc' = "load"
  /\ UNCHANGED <<disk, inputs, kind, pack_info, cached_state, returncode, result, child, ending,
                 history>>

Desired ==
  /\ pc = "desired"
  /\ desired_cache_state' = DesiredState(pack_info)
  /\ IF generate_only
       THEN /\ desired_state_file' = save_cache_state(desired_cache_state')
            /\ Exit(0)
       ELSE /\ pc' = "load"
            /\ UNCHANGED <<desired_state_file, ending>>
  /\ UNCHANGED <<cache_state_file, cached_dir, runtime_cache, cached_pack_dir, exec_dir,
                 inputs, kind, pack_info, cached_state, returncode, result, child, history>>

\* Lines 83-91: read the file describing the state of the current cache.
Load ==
  /\ pc = "load"
  /\ cached_state' = load_cache_state(cache_state_file)
  /\ start' = [k \in Kinds |->
                 IF ~cached_state'.isdict THEN "unreadable"
                 ELSE IF Get(cached_state'.d, k) = None THEN "missing"
                 ELSE IF Get(cached_state'.d, k) # desired_cache_state[k] THEN "stale"
                 ELSE IF Validate(k, pack_info.loader, cached_dir[k]) # None THEN "invalid"
                 ELSE "hit"]
  /\ kind' = 1
  /\ pc' = "check"
  /\ loaded' = cache_state_file.st
  /\ UNCHANGED <<disk, inputs, pack_info, desired_cache_state, returncode, result, child, ending,
                 installs, deletes, repairing, reconciled, launched, invocations, prev>>

\* ---------------------------------------------------------- reconciliation
\* main() has the same statements three times, for "server" (lines 93-116),
\* "pw_bootstrap" (118-138) and "mc-test-injector" (140-160); K is the kind
\* they are run for.

\* Going on to the pack synchronisation after whichever kind.
NextKind_hasty ==
  /\ kind' = kind
  /\ pc' = "sync"
  /\ reconciled' = (kind = Len(KindOrder))

\* Where main() goes after kind K.
NextKind ==
  IF kind < Len(KindOrder)
    THEN /\ kind' = kind + 1
         /\ pc' = "check"
         /\ UNCHANGED reconciled
    ELSE /\ kind' = kind
         /\ pc' = "sync"
         /\ reconciled' = TRUE

\* Staleness that takes a kind without a record for up to date.
Stale_unless_missing(k) ==
  /\ Get(cached_state.d, k) # None
  /\ desired_cache_state[k] # Get(cached_state.d, k)

\* Validation with its result read the wrong way round, and validation
\* that is never consulted.
Invalid_inverted(k) == Validate(k, pack_info.loader, cached_dir[k]) = None
Invalid_never(k) == FALSE

\* Is the cache entry of kind k stale (line 95) or invalid (line 101)?
\* cached_state.get raises AttributeError when cached_state is not a dict.
Stale(k) == desired_cache_state[k] # Get(cached_state.d, k)
Invalid(k) == Validate(k, pack_info.loader, cached_dir[k]) # None

\* Lines 95, 101 (120, 125; 142, 147): the two conditions.
Check ==
  /\ pc = "check"
  /\ IF ~cached_state.isdict
       THEN Raise("AttributeError")
     ELSE IF Stale(K) \/ Invalid(K)
       THEN pc' = "rm" /\ UNCHANGED ending
     ELSE pc' = "decide" /\ UNCHANGED ending
  /\ UNCHANGED <<disk, inputs, locals, history>>

\* An rmtree that leaves the directory as it is.
Rm_keeping ==
  /\ pc = "rm"
  /\ deletes' = [deletes EXCEPT ![K] = @ + 1]
  /\ repairing' = [repairing EXCEPT ![K] = TRUE]
  /\ pc' = IF K = "server" THEN "rm_runtime" ELSE "clear"
  /\ UNCHANGED <<disk, inputs, locals, ending,
                 installs, start, reconciled, launched, loaded, invocations, prev>>

\* Lines 97, 104 (122, 127; 144, 149): shutil.rmtree of the kind's directory.
Rm ==
  /\ pc = "rm"
  /\ cached_dir' = [cached_dir EXCEPT ![K] = NoDir]
  /\ deletes' = [deletes EXCEPT ![K] = @ + 1]
  /\ repairing' = [repairing EXCEPT ![K] = TRUE]
  /\ pc' = IF K = "server" THEN "rm_runtime" ELSE "clear"
  /\ UNCHANGED <<cache_state_file, runtime_cache, cached_pack_dir, exec_dir,
                 desired_state_file, inputs, locals, ending,
                 installs, start, reconciled, launched, loaded, invocations, prev>>

\* The invalidation of the server without the rmtree of the runtime cache.
RmRuntime_skipping ==
  /\ pc = "rm_runtime"
  /\ pc' = "clear"
  /\ UNCHANGED <<disk, inputs, locals, ending, history>>

\* Lines 98, 105: shutil.rmtree(runtime_cache), for the server only.
RmRuntime ==
  /\ pc = "rm_runtime"
  /\ runtime_cache' = NoDir
  /\ pc' = "clear"
  /\ UNCHANGED <<cache_state_file, cached_dir, cached_pack_dir, exec_dir,
                 desired_state_file, inputs, locals, ending, history>>

\* Clearing the fingerprint in memory only, without the save.
Clear_unsaved ==
  /\ pc = "clear"
  /\ cached_state' = [cached_state EXCEPT !.d = Put(@, K, None)]
  /\ pc' = "decide"
  /\ UNCHANGED <<disk, inputs, kind, pack_info, desired_cache_state, returncode, result, child, ending,
                 history>>

\* Clearing that saves a state holding nothing but the cleared kind.
Clear_forgetting ==
  /\ pc = "clear"
  /\ cached_state' = [cached_state EXCEPT !.d = stamped(Put(EmptyDict, K, None))]
  /\ cache_state_file' = save_cache_state(Put(EmptyDict, K, None))
  /\ pc' = "decide"
  /\ UNCHANGED <<cached_dir, runtime_cache, cached_pack_dir, exec_dir, desired_state_file,
                 inputs, kind, pack_info, desired_cache_state, returncode, result, child, ending,
                 history>>

\* Lines 99-100, 106-107 (123-124, 128-129; 145-146, 150-151):
\* cached_state[K] = None, saved at once.
Clear ==
  /\ pc = "clear"
  /\ cached_state' = [cached_state EXCEPT !.d = stamped(Put(@, K, None))]
  /\ cache_state_file' = save_cache_state(Put(cached_state.d, K, None))
  /\ pc' = "decide"
  /\ UNCHANGED <<cached_dir, runtime_cache, cached_pack_dir, exec_dir, desired_state_file,
                 inputs, kind, pack_info, desired_cache_state, returncode, result, child, ending, history>>

\* Lines 109, 115 (131, 137; 153, 159): install, or cache hit.
Decide ==
  /\ pc = "decide"
  /\ IF Get(cached_state.d, K) = None
       THEN /\ pc' = "install"
            /\ UNCHANGED <<kind, reconciled>>
       ELSE NextKind
  /\ UNCHANGED <<disk, inputs, pack_info, desired_cache_state, cached_state, returncode, result, child,
                 ending, installs, deletes, repairing, start, launched, loaded, invocations, prev>>

\* An installer that is called again when it has raised.
Install_retrying(downloaded, produced) ==
  /\ pc = "install"
  /\ LET r == Setup(K, pack_info.loader, cached_dir[K], downloaded, produced)
     IN  /\ cached_dir' = [cached_dir EXCEPT ![K] = r.dir]
         /\ installs' = [installs EXCEPT ![K] = @ + 1]
         /\ IF r.raised
              THEN /\ pc' = "install"
                   /\ UNCHANGED repairing
              ELSE /\ pc' = "commit"
                   /\ repairing' = [repairing EXCEPT ![K] = FALSE]
         /\ UNCHANGED ending
  /\ UNCHANGED <<cache_state_file, runtime_cache, cached_pack_dir, exec_dir,
                 desired_state_file, inputs, locals, deletes, start, reconciled,
                 launched, loaded, invocations, prev>>

\* Lines 111, 133, 155: the installer of the kind is called; it returns or
\* raises.
Install(downloaded, produced) ==
  /\ pc = "install"
  /\ LET r == Setup(K, pack_info.loader, cached_dir[K], downloaded, produced)
     IN  /\ cached_dir' = [cached_dir EXCEPT ![K] = r.dir]
         /\ installs' = [installs EXCEPT ![K] = @ + 1]
         /\ IF r.raised
              THEN /\ Raise("installer")
                   /\ UNCHANGED repairing
              ELSE /\ pc' = "commit"
                   /\ repairing' = [repairing EXCEPT ![K] = FALSE]
                   /\ UNCHANGED ending
  /\ UNCHANGED <<cache_state_file, runtime_cache, cached_pack_dir, exec_dir,
                 desired_state_file, inputs, locals, deletes, start, reconciled,
                 launched, loaded, invocations, prev>>

\* Lines 113-114 (135-136; 157-158): the new fingerprint is stored and saved.
Commit ==
  /\ pc = "commit"
  /\ cached_state' = [cached_state EXCEPT !.d = stamped(Put(@, K, desired_cache_state[K]))]
  /\ cache_state_file' = save_cache_state(Put(cached_state.d, K, desired_cache_state[K]))
  /\ NextKind
  /\ UNCHANGED <<cached_dir, runtime_cache, cached_pack_dir, exec_dir, desired_state_file,
                 inputs, pack_info, desired_cache_state, returncode, result, child, ending,
                 installs, deletes, repairing, start, launched, loaded, invocations, prev>>

\* ------------------------------------------------- pack synchronisation
\* Lines 162-175: the packwiz bootstrap is run on the pack directory; its
\* exit status is not looked at.  It leaves a pack tree in the pack
\* directory and may download packwiz-installer.jar next to itself.
Sync(tree, fetched) ==
  /\ pc = "sync"
  /\ cached_pack_dir' = TreeOf(tree)
  /\ cached_dir' = [cached_dir EXCEPT !["pw_bootstrap"] =
                      IF fetched THEN DirOf(@.entries \cup {"packwiz-installer.jar"}) ELSE @]
  /\ pc' = "rebuild"
  /\ UNCHANGED <<cache_state_file, runtime_cache, exec_dir, desired_state_file,
                 inputs, locals, ending, history>>

\* ------------------------------------------------------------- assembly
\* Lines 178-179: shutil.rmtree(exec_dir); exec_dir.mkdir(parents=True)
Rebuild ==
  /\ pc = "rebuild"
  /\ exec_dir' = ExecOf({})
  /\ pc' = "link_server"
  /\ UNCHANGED <<cache_state_file, cached_dir, runtime_cache, cached_pack_dir,
                 desired_state_file, inputs, locals, ending, history>>

\* Lines 180-181: the cached server files are linked.
LinkServer ==
  /\ pc = "link_server"
  /\ exec_dir' = link_server(exec_dir, cached_dir["server"])
  /\ pc' = "link_pack"
  /\ UNCHANGED <<cache_state_file, cached_dir, runtime_cache, cached_pack_dir,
                 desired_state_file, inputs, locals, ending, history>>

\* Lines 182-189: the pack files are linked one by one, in the order rglob
\* yields them; the loop stops at the first one that raises, with linked
\* the files that came before it.
LinkPack(linked) ==
  /\ pc = "link_pack"
  /\ LET files == cached_pack_dir.entries \cap PackFiles
         bad == {f \in files : pack_link_raises(exec_dir, cached_dir["server"], f)}
     IN  /\ linked \subseteq files \ bad
         /\ bad = {} => linked = files
         /\ exec_dir' = link_pack(exec_dir, linked)
         /\ cached_dir' = [cached_dir EXCEPT !["server"] =
                             link_pack_server(exec_dir, @, linked)]
         /\ IF bad # {}
              THEN Raise("FileExistsError")
              ELSE pc' = "dotfabric" /\ UNCHANGED ending
  /\ UNCHANGED <<cache_state_file, runtime_cache, cached_pack_dir, desired_state_file,
                 inputs, locals, history>>

\* Lines 191-193: runtime_cache/.fabric is made and linked as exec/.fabric.
DotFabric ==
  /\ pc = "dotfabric"
  /\ runtime_cache' = DirOf(runtime_cache.entries \cup {".fabric"})
  /\ IF ".fabric" \in ExecPaths(exec_dir)
       THEN /\ Raise("FileExistsError")
            /\ UNCHANGED exec_dir
       ELSE /\ exec_dir' = ExecOf(exec_dir.entries
                                   \cup {Entry(".fabric", "dirlink", "runtime/.fabric")})
            /\ pc' = "dotconnector"
            /\ UNCHANGED ending
  /\ UNCHANGED <<cache_state_file, cached_dir, cached_pack_dir, desired_state_file,
                 inputs, locals, history>>

\* Lines 195-197: runtime_cache/.connector is made and linked as
\* exec/mods/.connector.
DotConnector ==
  /\ pc = "dotconnector"
  /\ runtime_cache' = DirOf(runtime_cache.entries \cup {".connector"})
  /\ LET where == Resolve(exec_dir, "mods")
     IN  CASE where = "missing" ->
                /\ Raise("FileNotFoundError")
                /\ UNCHANGED <<exec_dir, cached_dir>>
           [] where = "notdir" ->
                /\ Raise("NotADirectoryError")
                /\ UNCHANGED <<exec_dir, cached_dir>>
           [] where = "through" ->
                IF "mods/.connector" \in cached_dir["server"].entries
                  THEN /\ Raise("FileExistsError")
                       /\ UNCHANGED <<exec_dir, cached_dir>>
                  ELSE /\ cached_dir' = [cached_dir EXCEPT !["server"] =
                                           DirOf(@.entries \cup {"mods/.connector"})]
                       /\ pc' = "eula"
                       /\ UNCHANGED <<exec_dir, ending>>
           [] OTHER ->
                IF "mods/.connector" \in ExecPaths(exec_dir)
                  THEN /\ Raise("FileExistsError")
                       /\ UNCHANGED <<exec_dir, cached_dir>>
                  ELSE /\ exec_dir' = ExecOf(exec_dir.entries
                                              \cup {Entry("mods/.connector", "dirlink",
                                                          "runtime/.connector")})
                       /\ pc' = "eula"
                       /\ UNCHANGED <<cached_dir, ending>>
  /\ UNCHANGED <<cache_state_file, cached_pack_dir, desired_state_file,
                 inputs, locals, history>>

\* Lines 199-204: eula.txt is written unless it exists.
Eula ==
  /\ pc = "eula"
  /\ exec_dir' = IF "eula.txt" \in ExecPaths(exec_dir) THEN exec_dir
                 ELSE ExecOf(exec_dir.entries \cup {Entry("eula.txt", "file", "")})
  /\ pc' = "clear_crash"
  /\ UNCHANGED <<cache_state_file, cached_dir, runtime_cache, cached_pack_dir,
                 desired_state_file, inputs, locals, ending, history>>

\* The crash reports of the supervised process.
CrashPath(i) == "crash-reports/crash-" \o ToString(i)
CrashEntries(x) == {e \in x.entries : \E i \in 1..MaxCrashReports : e.path = CrashPath(i)}

\* Lines 209-212: lingering crash reports are cleared.
ClearCrash ==
  /\ pc = "clear_crash"
  /\ exec_dir' = IF "crash-reports" \in ExecPaths(exec_dir)
                   THEN ExecOf({e \in exec_dir.entries \ CrashEntries(exec_dir) :
                                  e.path # "crash-reports"})
                   ELSE exec_dir
  /\ pc' = "run"
  /\ UNCHANGED <<cache_state_file, cached_dir, runtime_cache, cached_pack_dir,
                 desired_state_file, inputs, locals, ending, history>>

\* --------------------------------------------------- the supervised run
\* Lines 214-221: run_server(exec_dir, java, loader, java_args, mc_args,
\* timeout=240).  The child exits with a status, or is still running when
\* the timeout elapses: subprocess.run then kills it and raises
\* TimeoutExpired.  While it runs the child may write crash reports below
\* the execution directory and files into its .fabric cache.
Run(code, timed_out, crash_dir, reports, cached) ==
  /\ pc = "run"
  /\ reports > 0 => crash_dir
  /\ LET out == run_server(pack_info.loader, JavaAgent, McArgs)
     IN  /\ child' = Call(pack_info.loader, JavaAgent, out)
         /\ launched' = IF out.raised THEN launched ELSE launched + 1
         /\ exec_dir' =
              IF out.raised THEN exec_dir
              ELSE ExecOf(exec_dir.entries
                     \cup (IF crash_dir THEN {Entry("crash-reports", "dir", "")} ELSE {})
                     \cup {Entry(CrashPath(i), "file", "") : i \in 1..reports})
         /\ runtime_cache' =
              IF ~out.raised /\ cached
                THEN DirOf(runtime_cache.entries \cup {".fabric/remapped.jar"})
              ELSE runtime_cache
         /\ IF out.raised
              THEN Raise("RuntimeError") /\ UNCHANGED <<returncode, result>>
            ELSE IF timed_out
              THEN Raise("TimeoutExpired") /\ UNCHANGED <<returncode, result>>
            ELSE /\ returncode' = code
                 /\ result' = CompletedProcess
                 /\ pc' = "classify"
                 /\ UNCHANGED ending
  /\ UNCHANGED <<cache_state_file, cached_dir, cached_pack_dir, desired_state_file,
                 inputs, kind, pack_info, desired_cache_state, cached_state,
                 installs, deletes, repairing, start, reconciled, loaded, invocations, prev>>

\* Classification that looks at the crash reports before the exit status.
classify_crash_first(code, x) ==
  IF "crash-reports" \in ExecPaths(x) /\ CrashEntries(x) # {} THEN 2
  ELSE IF code # 0 THEN 1
  ELSE 0

\* Lines 223-231: the exit status of the script.
classify(code, x) ==
  IF code # 0 THEN 1
  ELSE IF "crash-reports" \in ExecPaths(x) /\ CrashEntries(x) # {} THEN 2
  ELSE 0

Classify ==
  /\ pc = "classify"
  /\ Exit(classify(returncode, exec_dir))
  /\ UNCHANGED <<disk, inputs, locals, history>>

\* ------------------------------------------------------------------- kill
\* The process is killed before or in the middle of its next statement.
\* A statement that writes to the disk may have done part of its writing:
\* rmtree may have removed some of the entries, an installer may have
\* written some of its files, and a file opened for writing may be left
\* truncated.
Kill ==
  /\ pc \notin {"idle", "done"}
  /\ CASE pc = "rm" ->
            /\ \E S \in SUBSET cached_dir[K].entries :
                 cached_dir' = [cached_dir EXCEPT ![K] = DirOf(S)]
            /\ UNCHANGED cache_state_file
       [] pc = "install" ->
            /\ \E S \in SUBSET KindFiles(K) :
                 cached_dir' = [cached_dir EXCEPT ![K] = DirOf(S)]
            /\ UNCHANGED cache_state_file
       [] pc \in {"clear", "commit"} ->
            /\ cache_state_file' \in {cache_state_file, UnparseableFile}
            /\ UNCHANGED cached_dir
       [] OTHER -> UNCHANGED <<cache_state_file, cached_dir>>
  /\ pc' = "done"
  /\ exit_code' = 137
  /\ error' = "killed"
  /\ UNCHANGED <<runtime_cache, cached_pack_dir, exec_dir, desired_state_file,
                 inputs, pack_info, reconciled, invocations, prev>>
  /\ loaded' = ""
  \* the memory of the process is gone
  /\ kind' = 1
  /\ desired_cache_state' = NoDesired
  /\ cached_state' = NoState
  /\ returncode' = 0
  /\ result' = NoResult
  /\ child' = NoChild
  /\ installs' = Zero
  /\ deletes' = Zero
  /\ repairing' = Nowhere
  /\ start' = NoStart
  /\ launched' = 0

\* ---------------------------------------------------------- specification
Next ==
  \/ \E m \in Manifests, gen \in BOOLEAN : Begin(m, gen)
  \/ Parse
  \/ Mkdirs
  \/ Desired
  \/ Load
  \/ Check
  \/ Rm
  \/ RmRuntime
  \/ Clear
  \/ Decide
  \/ \E downloaded \in BOOLEAN, produced \in SUBSET KindFiles(K) :
        Install(downloaded, produced)
  \/ Commit
  \/ \E tree \in PackTrees, fetched \in BOOLEAN : Sync(tree, fetched)
  \/ Rebuild
  \/ LinkServer
  \/ \E linked \in SUBSET PackFiles : LinkPack(linked)
  \/ DotFabric
  \/ DotConnector
  \/ Eula
  \/ ClearCrash
  \/ \E code \in 0..MaxReturnCode, timed_out \in BOOLEAN, crash_dir \in BOOLEAN,
        reports \in 0..MaxCrashReports, cached \in BOOLEAN :
        Run(code, timed_out, crash_dir, reports, cached)
  \/ Classify
  \/ Kill

Spec == Init /\ [][Next]_vars

\* ------------------------------------------------- the functions on their own
\* parse_packwiz with the fingerprint of its result, setup_server with
\* validate_server, and run_server, applied to arguments of their own
\* rather than to what main() gives them.  Each call starts from the
\* outcome of no other: it clears what the call before has left in the
\* variables that tell how a call went.

\* Version strings and [versions] tables: real ones, and ones with the
\* name of a loader in them, which pack.toml may hold as well.
MinecraftVersions == {"1.21", "1", "1fabric0"}
LoaderVersions == {"0.15.0", "2", "0neoforge2"}
PackManifests ==
  { Table({"minecraft", l}, mc, lv) :
      l \in supported_loaders, mc \in MinecraftVersions, lv \in LoaderVersions }
    \cup InvalidManifests

\* Server directories: none, or one with any of the files an installer
\* can leave.
ServerDirs == {NoDir} \cup {DirOf(S) : S \in SUBSET ServerFiles}

\* Loaders and java arguments run_server may be called with.
Loaders == supported_loaders \cup {"quilt"}
JavaArgs == { << >>, JavaAgent, JavaAgent \o <<"-Xmx2G">> }

FunctionInit ==
  /\ cache_state_file = AbsentFile
  /\ cached_dir \in [Kinds -> ServerDirs]
  /\ \A k \in Kinds \ {"server"} : cached_dir[k] = NoDir
  /\ runtime_cache = NoDir
  /\ cached_pack_dir = NoDir
  /\ exec_dir = NoExec
  /\ desired_state_file = AbsentFile
  /\ version_data = Table({}, "", "")
  /\ generate_only = FALSE
  /\ pc = "idle"
  /\ kind = 1
  /\ pack_info = NoInfo
  /\ desired_cache_state = NoDesired
  /\ cached_state = NoState
  /\ returncode = 0
  /\ result = NoResult
  /\ child = NoChild
  /\ exit_code = -1
  /\ error = ""
  /\ installs = Zero
  /\ deletes = Zero
  /\ repairing = Nowhere
  /\ start = NoStart
  /\ reconciled = FALSE
  /\ launched = 0
  /\ loaded = ""
  /\ invocations = 0
  /\ prev = NoPrev

\* common.parse_packwiz on a pack.toml, and lines 73-77 of main() on its
\* result; prev keeps the result of the call before.
ParsePack(m) ==
  /\ version_data' = m
  /\ pack_info' = parse_packwiz(m)
  /\ desired_cache_state' = IF pack_info'.ok THEN DesiredState(pack_info') ELSE NoDesired
  /\ prev' = [info |-> pack_info, failed |-> "none"]
  /\ installs' = Zero
  /\ error' = ""
  /\ child' = NoChild
  /\ launched' = 0
  /\ returncode' = 0
  /\ result' = NoResult
  /\ UNCHANGED <<disk, generate_only, pc, kind, cached_state, exit_code, deletes,
                 repairing, start, reconciled, loaded, invocations>>

\* setup_server on the server directory, for the loader parsed.
SetupServer(downloaded, produced) ==
  /\ pack_info.ok
  /\ installs["server"] = 0
  /\ LET r == setup_server(pack_info.loader, cached_dir["server"], downloaded, produced)
     IN  /\ cached_dir' = [cached_dir EXCEPT !["server"] = r.dir]
         /\ error' = IF r.raised THEN "installer" ELSE ""
  /\ installs' = [installs EXCEPT !["server"] = 1]
  /\ child' = NoChild
  /\ launched' = 0
  /\ returncode' = 0
  /\ result' = NoResult
  /\ UNCHANGED <<cache_state_file, runtime_cache, cached_pack_dir, exec_dir,
                 desired_state_file, inputs, pc, kind, pack_info, desired_cache_state,
                 cached_state, exit_code, deletes, repairing, start, reconciled, loaded,
                 invocations, prev>>

\* run_server for a loader, with a child that exits with a status.
RunServer(loader, java_args, code) ==
  /\ LET out == run_server(loader, java_args, McArgs)
     IN  /\ child' = Call(loader, java_args, out)
         /\ launched' = IF out.raised THEN 0 ELSE 1
         /\ returncode' = IF out.raised THEN 0 ELSE code
         /\ result' = IF out.raised THEN NoResult ELSE CompletedProcess
         /\ error' = IF out.raised THEN "RuntimeError" ELSE ""
  /\ installs' = Zero
  /\ UNCHANGED <<disk, inputs, pc, kind, pack_info, desired_cache_state, cached_state,
                 exit_code, deletes, repairing, start, reconciled, loaded, invocations,
                 prev>>

FunctionNext ==
  \/ \E m \in PackManifests : ParsePack(m)
  \/ \E downloaded \in BOOLEAN, produced \in SUBSET ServerFiles :
        SetupServer(downloaded, produced)
  \/ \E loader \in Loaders, java_args \in JavaArgs, code \in 0..MaxReturnCode :
        RunServer(loader, java_args, code)

FunctionSpec == FunctionInit /\ [][FunctionNext]_vars

\* ================================================================ claims
Index(k) == CHOOSE i \in 1..Len(KindOrder) : KindOrder[i] = k

\* Kind k has been reconciled in the running invocation (of a killed
\* process only the disk is left, and whether it had reconciled all kinds).
Finished(k) == error # "killed" /\ (reconciled \/ Index(k) < kind)

\* main() is at kind k, at one of the statements p.
At(k, p) == kind = Index(k) /\ pc \in p

\* The kind's directory passes the kind's validator.
Valid(k) == cached_dir[k].exists /\ Validate(k, pack_info.loader, cached_dir[k]) = None

\* C1 - Cache hit: a kind whose stored fingerprint equalled the desired one
\* and whose validator reported no problem when reconciliation started has
\* its installer never called and its directory never deleted in that
\* invocation.
C1_CacheHit ==
  \A k \in Kinds :
    start[k] = "hit" =>
      /\ installs[k] = 0
      /\ deletes[k] = 0
      /\ cached_dir[k].exists
      /\ ~At(k, {"rm", "rm_runtime", "clear", "install", "commit"})

C1_Witness ==
  /\ reconciled
  /\ pc = "sync"
  /\ \A k \in Kinds : start[k] = "hit"

\* C2 - Crash consistency: at no step of reconciliation does the file on
\* disk record a fingerprint for a kind whose directory has been deleted
\* and not yet been reinstalled.
C2_CrashConsistent ==
  \A k \in Kinds :
    repairing[k] => StoredFingerprint(cache_state_file, k) = None

\* C3 - Fingerprint mismatch forces reinstall: a kind whose stored
\* fingerprint differed from the desired one, or that had no record, has
\* its directory deleted, then a cleared fingerprint persisted, then its
\* installer run; once the installer has succeeded the persisted
\* fingerprint is the desired one; nothing but the installer raises.
C3_MismatchReinstalls ==
  \A k \in Kinds :
    start[k] \in {"missing", "stale"} =>
      /\ At(k, {"clear"}) => deletes[k] = 1 /\ cached_dir[k] = NoDir
      /\ At(k, {"decide", "install"}) =>
           /\ deletes[k] = 1
           /\ cached_dir[k] = NoDir
           /\ cache_state_file.st = "object"
           /\ k \in DOMAIN json_loads(cache_state_file.text)
           /\ StoredFingerprint(cache_state_file, k) = None
      /\ At(k, {"commit"}) => deletes[k] = 1 /\ installs[k] = 1
      /\ Finished(k) =>
           /\ deletes[k] = 1
           /\ installs[k] = 1
           /\ StoredFingerprint(cache_state_file, k) = desired_cache_state[k]
      /\ (At(k, {"done"}) /\ ~reconciled) => error = "installer" /\ installs[k] = 1

C3_Witness ==
  /\ reconciled
  /\ pack_info.minecraft_version = "1.21"
  /\ pack_info.loader = "fabric"
  /\ pack_info.loader_version = "0.15.0"
  /\ start["server"] = "stale"
  /\ start["pw_bootstrap"] = "missing"
  /\ StoredFingerprint(cache_state_file, "server") = "1.21fabric0.15.0"

\* C4 - Validation failure despite a fingerprint match: a kind whose stored
\* fingerprint equalled the desired one but whose validator reported a
\* problem has its directory deleted and its installer run, and once the
\* installer has succeeded the persisted fingerprint is the desired one.
C4_InvalidReinstalls ==
  \A k \in Kinds :
    start[k] = "invalid" =>
      /\ At(k, {"clear", "decide", "install"}) => deletes[k] = 1 /\ cached_dir[k] = NoDir
      /\ At(k, {"commit"}) => deletes[k] = 1 /\ installs[k] = 1
      /\ Finished(k) =>
           /\ deletes[k] = 1
           /\ installs[k] = 1
           /\ StoredFingerprint(cache_state_file, k) = desired_cache_state[k]
      /\ (At(k, {"done"}) /\ ~reconciled) => error = "installer" /\ installs[k] = 1

C4_Witness ==
  /\ reconciled
  /\ \A k \in Kinds : start[k] = "invalid"
  /\ \A k \in Kinds : StoredFingerprint(cache_state_file, k) = desired_cache_state[k]

\* C5 - Idempotence: an invocation that follows one that reconciled all
\* three kinds, with the same version parameters, calls no installer and
\* deletes no artifact directory.
C5_Idempotent ==
  (prev.info # NoInfo /\ pack_info = prev.info) =>
    /\ \A k \in Kinds : installs[k] = 0 /\ deletes[k] = 0
    /\ pc \notin {"rm", "rm_runtime", "clear", "install", "commit"}

C5_Witness ==
  /\ prev.info # NoInfo
  /\ pack_info = prev.info
  /\ reconciled
  /\ pc = "sync"

\* C6 - Installer failure never marks the cache valid: when an installer
\* raises the invocation aborts with the persisted state holding no
\* fingerprint for that kind, and the next invocation finds none and
\* installs the kind again.
C6_FailureNotValid ==
  /\ (pc = "done" /\ error = "installer") =>
       /\ exit_code = 1
       /\ ~reconciled
       /\ launched = 0
       /\ cache_state_file.st = "object"
       /\ StoredFingerprint(cache_state_file, K) = None
  /\ \A k \in Kinds :
       prev.failed = k =>
         /\ start[k] \in {"unknown", "missing"}
         /\ Finished(k) => installs[k] = 1

C6_Witness ==
  /\ prev.failed = "pw_bootstrap"
  /\ reconciled
  /\ installs["pw_bootstrap"] = 1

\* C7 - CacheState invariant at rest: when a fingerprint is about to be set
\* and persisted for a kind, after it has been, and at the end of every
\* invocation that reconciled all kinds, the kind's directory exists and
\* passes the kind's validator.
C7_ValidAtRest ==
  /\ pc = "commit" => Valid(K)
  /\ \A k \in Kinds : (reconciled \/ Finished(k)) => Valid(k)

C7_Witness ==
  /\ pc = "done"
  /\ error = ""
  /\ reconciled
  /\ \A k \in Kinds : installs[k] = 1

\* C8 - Self-healing: whatever the cache-state file and the directories,
\* an invocation in which no installer fails gets through reconciliation,
\* with every kind valid and every persisted fingerprint the desired one.
C8_SelfHealing ==
  (pc = "done" /\ ~generate_only /\ error \notin {"killed", "config", "installer"}) =>
    /\ reconciled
    /\ \A k \in Kinds :
         /\ Valid(k)
         /\ StoredFingerprint(cache_state_file, k) = desired_cache_state[k]

\* C9 - Loading never aborts: a cache-state file that is missing or does
\* not parse loads as the empty state, and all three kinds are installed
\* again.
C9_LoadFailsOpen ==
  loaded \in {"absent", "unparseable"} =>
    /\ cached_state.isdict
    /\ error # "AttributeError"
    /\ pc = "check" /\ kind = 1 => DOMAIN cached_state.d = {}
    /\ \A k \in Kinds :
         /\ start[k] = "missing"
         /\ Finished(k) => installs[k] = 1 /\ deletes[k] = 1

C9_Witness ==
  /\ loaded = "unparseable"
  /\ reconciled
  /\ \A k \in Kinds : installs[k] = 1

\* C10 - Outcome classification: when the supervised process exits without
\* timing out, the script exits with 1 if the exit status is not 0
\* (whatever the crash reports), with 2 if it is 0 and crash-reports has an
\* entry, with 0 if it is 0 and crash-reports has none.
CrashReportCount == Cardinality({e \in exec_dir.entries : e.path = "crash-reports"})
                      * Cardinality({i \in 1..MaxCrashReports : CrashPath(i) \in ExecPaths(exec_dir)})
C10_Classification ==
  (pc = "done" /\ launched = 1 /\ error = "") =>
    /\ returncode # 0 => exit_code = 1
    /\ (returncode = 0 /\ CrashReportCount > 0) => exit_code = 2
    /\ (returncode = 0 /\ CrashReportCount = 0) => exit_code = 0

C10_Witness ==
  /\ pc = "done"
  /\ launched = 1
  /\ error = ""
  /\ returncode # 0
  /\ CrashReportCount > 0
  /\ exit_code = 1

\* C11 - Timeout: when the supervised process is still running as the
\* timeout elapses, the script ends with main() holding a run result that
\* records timed_out, with exit status 1, and with the cache as
\* reconciliation left it: every kind valid, every persisted fingerprint
\* the desired one.
C11_Timeout ==
  (pc = "done" /\ error = "TimeoutExpired") =>
    /\ launched = 1
    /\ result.bound
    /\ result.timed_out
    /\ exit_code = 1
    /\ reconciled
    /\ \A k \in Kinds :
         /\ Valid(k)
         /\ StoredFingerprint(cache_state_file, k) = desired_cache_state[k]

\* The execution directory has been assembled, and the supervised process
\* has not yet been started in it.
Assembled == pc \in {"eula", "clear_crash", "run"}

\* exec_dir / f leads to the file f of the pack directory: by a link of the
\* execution directory, or by a link that lies below a linked directory.
ReachableAt(f) ==
  \/ Entry(f, "filelink", "pack/" \o f) \in exec_dir.entries
  \/ /\ Parent(f) # ""
     /\ Resolve(exec_dir, Parent(f)) = "through"
     /\ f \in cached_dir["server"].entries

\* What this invocation's assembly puts into the execution directory.
FreshEntries ==
  link_server(ExecOf({}), cached_dir["server"]).entries
    \cup {Entry(f, "filelink", "pack/" \o f) : f \in cached_pack_dir.entries \cap PackFiles}
    \cup {Entry(Parent(f), "dir", "") : f \in cached_pack_dir.entries \cap PackFiles}
    \cup {Entry(".fabric", "dirlink", "runtime/.fabric"),
          Entry("mods/.connector", "dirlink", "runtime/.connector"),
          Entry("eula.txt", "file", "")}

\* C12 - Execution directory rebuild: once the execution directory has been
\* assembled, every file of the pack directory is reachable in it at the
\* same relative path, each of its entries is one this assembly made, and
\* no pack link that an earlier invocation created below it is left to be
\* reached there.
C12_Rebuilt ==
  Assembled =>
    /\ \A f \in cached_pack_dir.entries \cap PackFiles : ReachableAt(f)
    /\ exec_dir.entries \subseteq FreshEntries
    /\ \A f \in PackFiles :
         (Resolve(exec_dir, Parent(f)) = "through" /\ f \in cached_dir["server"].entries)
           => f \in cached_pack_dir.entries

\* The statements of main() that assemble the execution directory.
Assembling == pc \in {"rebuild", "link_server", "link_pack", "dotfabric", "dotconnector"}

\* C13 - The assembler never mutates either source: no statement of the
\* assembly changes the cached server directory or the pack directory.
C13_SourcesUntouched ==
  [][Assembling =>
       /\ cached_dir'["server"] = cached_dir["server"]
       /\ cached_pack_dir' = cached_pack_dir]_vars

\* Two files hold the same text.
SameFile(a, b) ==
  /\ a.st = b.st
  /\ Len(a.text) = Len(b.text)
  /\ \A i \in 1..Len(a.text) :
       /\ a.text[i].key = b.text[i].key
       /\ ToString(a.text[i].value) = ToString(b.text[i].value)

\* C14 - Desired-state override: an invocation with
\* GENERATE_DESIRED_CACHE_STATE_AND_EXIT = "true" gets no further than
\* writing the desired cache state, which it does before it exits with
\* status 0; it does not load the cache-state file, delete a directory,
\* call an installer or launch the server, and none of its steps changes
\* the cache-state file, an entry of an artifact directory, of the pack
\* directory or of the execution directory.
C14_Override ==
  /\ [](generate_only =>
          /\ pc \in {"parse", "mkdirs", "desired", "done"}
          /\ loaded = ""
          /\ installs = Zero
          /\ deletes = Zero
          /\ launched = 0
          /\ ~reconciled
          /\ (pc = "done" /\ error = "") =>
               /\ exit_code = 0
               /\ SameFile(desired_state_file, save_cache_state(DesiredState(pack_info))))
  /\ [][generate_only' =>
          /\ SameFile(cache_state_file', cache_state_file)
          /\ \A k \in Kinds : cached_dir'[k].entries = cached_dir[k].entries
          /\ cached_pack_dir'.entries = cached_pack_dir.entries
          /\ runtime_cache'.entries = runtime_cache.entries
          /\ exec_dir'.entries = exec_dir.entries]_vars

C14_Witness ==
  /\ generate_only
  /\ pc = "done"
  /\ exit_code = 0
  /\ desired_state_file.st = "object"
  /\ StoredFingerprint(desired_state_file, "server") = "1.21neoforge21.1.64"
  /\ StoredFingerprint(cache_state_file, "server") = "1.21fabric0.15.0"

\* A [versions] table with no minecraft version, with no supported loader,
\* with more than one, or with a key that is not supported.
BadManifest(v) ==
  \/ "minecraft" \notin DOMAIN v
  \/ DOMAIN v \cap supported_loaders = {}
  \/ Cardinality(DOMAIN v \cap supported_loaders) > 1
  \/ \E key \in DOMAIN v : key \notin {"minecraft", "unsup", "fabric", "neoforge"}

\* C15 - Configuration errors are fatal before any cache change: an
\* invocation given such a manifest ends at the parse, by an exception
\* unless it is killed, without having loaded the cache state, deleted a
\* directory, called an installer or launched the server, and no step of it
\* changes the cache-state file or any directory.
C15_ConfigFatal ==
  /\ []((BadManifest(version_data) /\ pc \notin {"idle", "parse"}) =>
          /\ pc = "done"
          /\ error \in {"config", "killed"}
          /\ error = "config" => exit_code = 1
          /\ loaded = ""
          /\ installs = Zero
          /\ deletes = Zero
          /\ launched = 0
          /\ ~reconciled)
  /\ [][(BadManifest(version_data') /\ pc' # "idle") =>
          /\ SameFile(cache_state_file', cache_state_file)
          /\ SameFile(desired_state_file', desired_state_file)
          /\ cached_dir' = cached_dir
          /\ cached_pack_dir' = cached_pack_dir
          /\ runtime_cache' = runtime_cache
          /\ exec_dir' = exec_dir]_vars

C15_Witness ==
  /\ pc = "done"
  /\ error = "config"
  /\ "quilt" \in DOMAIN version_data
  /\ invocations = 2
  /\ prev.info # NoInfo

\* C16 - Fatal errors are distinguishable by exit code: an invocation that
\* a configuration error or an installer failure has ended has an exit
\* status that is none of those of a classified run (0, 1, 2).
C16_Distinguishable ==
  (pc = "done" /\ error \in {"config", "installer"}) => exit_code \notin {0, 1, 2}

\* The JSON type of a member's value: a number, null, or a string.
IsNumber(v) == ToString(v) \in {ToString(i) : i \in 0..9}
IsNull(v) == ToString(v) = ToString(None)
IsString(v) == ~IsNumber(v) /\ ~IsNull(v)

\* The members of a text are in sorted key order.
KeyRank(key) == CHOOSE i \in 1..Len(SortedKeys) : SortedKeys[i] = key
Sorted(text) ==
  \A i, j \in 1..Len(text) : i < j => KeyRank(text[i].key) < KeyRank(text[j].key)

\* A statement of main() that saves the cache state has been run to its end.
Saved == pc \in {"clear", "commit"} /\ error' # "killed"

\* C17 as stated - every write of the cache-state file is a full overwrite
\* with the object of the in-memory state, whose members are in sorted key
\* order, include script_version, and all have a string for their value.
C17_AllStrings ==
  [][Saved =>
       /\ cache_state_file'.st = "object"
       /\ SameFile(cache_state_file', ObjectFile(json_dumps(cached_state'.d)))
       /\ Sorted(cache_state_file'.text)
       /\ \E i \in 1..Len(cache_state_file'.text) :
            cache_state_file'.text[i].key = "script_version"
       /\ \A i \in 1..Len(cache_state_file'.text) :
            IsString(cache_state_file'.text[i].value)]_vars

\* C17 - every write of the cache-state file is a full overwrite with the
\* object of the in-memory state, whose members are in sorted key order;
\* script_version is among them with the number 1 for its value, and the
\* member of a kind has a string or null, null for the kind that has just
\* been invalidated.
C17_WriteFormat ==
  [][Saved =>
       /\ cache_state_file'.st = "object"
       /\ SameFile(cache_state_file', ObjectFile(json_dumps(cached_state'.d)))
       /\ Sorted(cache_state_file'.text)
       /\ \E i \in 1..Len(cache_state_file'.text) :
            /\ cache_state_file'.text[i].key = "script_version"
            /\ ToString(cache_state_file'.text[i].value) = ToString(1)
       /\ \A i \in 1..Len(cache_state_file'.text) :
            cache_state_file'.text[i].key \in Kinds =>
              \/ IsString(cache_state_file'.text[i].value)
              \/ IsNull(cache_state_file'.text[i].value)
       /\ pc = "clear" =>
            \E i \in 1..Len(cache_state_file'.text) :
              /\ cache_state_file'.text[i].key = K
              /\ IsNull(cache_state_file'.text[i].value)]_vars

C17_Witness ==
  /\ pc = "install"
  /\ K = "pw_bootstrap"
  /\ Len(cache_state_file.text) = 3
  /\ cache_state_file.text[1].key = "pw_bootstrap"
  /\ IsNull(cache_state_file.text[1].value)
  /\ cache_state_file.text[2].key = "script_version"
  /\ IsNumber(cache_state_file.text[2].value)
  /\ cache_state_file.text[3].key = "server"
  /\ IsString(cache_state_file.text[3].value)

\* The statements of main() that reconcile a kind, and those that follow
\* the reconciliation.
Reconciling == pc \in {"check", "rm", "rm_runtime", "clear", "decide", "install", "commit"}
Reconciled ==
  pc \in {"sync", "rebuild", "link_server", "link_pack", "dotfabric", "dotconnector",
          "eula", "clear_crash", "run", "classify"}

\* C18 - Ordering: while a kind is reconciled no later kind has had its
\* directory deleted or its installer called, and every earlier kind is
\* done with: not under repair, valid, its desired fingerprint persisted;
\* main() is at the synchronisation, the assembly, the launch or the
\* classification only when all three kinds are done with, no process is
\* launched before that, and at most one is launched.
C18_Ordering ==
  /\ \A k \in Kinds :
       /\ (~reconciled /\ Index(k) > kind) =>
            installs[k] = 0 /\ deletes[k] = 0 /\ ~repairing[k]
       /\ Finished(k) =>
            /\ ~repairing[k]
            /\ Valid(k)
            /\ StoredFingerprint(cache_state_file, k) = desired_cache_state[k]
  /\ Reconciling => ~reconciled /\ launched = 0
  /\ Reconciled => reconciled /\ kind = Len(KindOrder) /\ \A k \in Kinds : Finished(k)
  /\ pc \in {"classify"} => launched = 1
  /\ launched > 0 => reconciled
  /\ launched <= 1

C18_Witness ==
  /\ pc = "classify"
  /\ launched = 1
  /\ \A k \in Kinds : installs[k] = 1 /\ deletes[k] = 1

\* C19 - Installer precondition: whenever an installer is about to be
\* called the kind's directory does not exist or is empty, and neither the
\* file on disk nor the state in memory holds a fingerprint for the kind.
C19_InstallerPrecondition ==
  pc = "install" =>
    /\ cached_dir[K].entries = {}
    /\ cache_state_file.st = "object"
    /\ StoredFingerprint(cache_state_file, K) = None
    /\ Get(cached_state.d, K) = None

C19_Witness ==
  /\ pc = "install"
  /\ K = "mc-test-injector"
  /\ start[K] = "invalid"
  /\ deletes[K] = 1

\* C20 - No retry: no installer is called twice in an invocation; an
\* invocation in which an installer has raised is over, without all kinds
\* reconciled and without a launch, and the only step after it is the start
\* of the next invocation, which changes nothing on the disk.
C20_NoRetry ==
  /\ [](\A k \in Kinds : installs[k] <= 1)
  /\ [](error = "installer" =>
          /\ pc = "done"
          /\ installs[K] = 1
          /\ launched = 0
          /\ ~reconciled)
  /\ [][error = "installer" =>
          /\ invocations' = invocations + 1
          /\ pc' = "parse"
          /\ SameFile(cache_state_file', cache_state_file)
          /\ cached_dir' = cached_dir
          /\ runtime_cache' = runtime_cache
          /\ cached_pack_dir' = cached_pack_dir
          /\ exec_dir' = exec_dir]_vars

C20_Witness ==
  /\ pc = "done"
  /\ error = "installer"
  /\ K = "mc-test-injector"
  /\ \A k \in Kinds : installs[k] = 1

\* C21 - Auxiliary cache invalidation: once the server has been invalidated
\* the runtime cache is gone along with the server directory before the
\* fingerprint is cleared and the installer called, and from the reinstall
\* of the server up to the launch it holds nothing but the two directories
\* the assembly makes anew.
C21_RuntimeCacheInvalidated ==
  /\ (At("server", {"clear", "decide", "install", "commit"}) /\ deletes["server"] = 1) =>
       runtime_cache = NoDir
  /\ (At("server", {"rm_runtime", "clear", "decide", "install"}) /\ deletes["server"] = 1) =>
       cached_dir["server"] = NoDir
  /\ (deletes["server"] = 1 /\ (Reconciling \/ Reconciled) /\ pc # "rm_runtime"
        /\ launched = 0) =>
       runtime_cache.entries \subseteq {".fabric", ".connector"}

C21_Witness ==
  /\ pc = "run"
  /\ start["server"] = "invalid"
  /\ installs["server"] = 1
  /\ runtime_cache.entries = {".fabric", ".connector"}

\* C22 - Independence of kinds: a statement that reconciles kind K, run to
\* its end, leaves the persisted fingerprint and the directory of the two
\* other kinds as they were, and for a kind other than the server leaves
\* the runtime cache as it was.
C22_Independent ==
  [][(Reconciling /\ error' # "killed") =>
       /\ \A k \in Kinds \ {K} :
            /\ StoredFingerprint(cache_state_file', k) = StoredFingerprint(cache_state_file, k)
            /\ cached_dir'[k] = cached_dir[k]
       /\ K # "server" => runtime_cache' = runtime_cache]_vars

C22_Witness ==
  /\ At("pw_bootstrap", {"commit"})
  /\ start["server"] = "hit"
  /\ start["pw_bootstrap"] = "stale"
  /\ start["mc-test-injector"] = "hit"
  /\ StoredFingerprint(cache_state_file, "server") = desired_cache_state["server"]
  /\ StoredFingerprint(cache_state_file, "mc-test-injector") = desired_cache_state["mc-test-injector"]
  /\ Valid("server")
  /\ ".fabric/remapped.jar" \in runtime_cache.entries

\* C23 - Runtime-owned subdirectories are real directories: in the
\* assembled execution directory .fabric and mods/.connector are plain
\* directories, and making them never fails, whatever the pack holds.
C23_RealDirectories ==
  /\ Assembled =>
       /\ Entry(".fabric", "dir", "") \in exec_dir.entries
       /\ Entry("mods/.connector", "dir", "") \in exec_dir.entries
  /\ error \notin {"FileNotFoundError", "NotADirectoryError"}

\* C24 - Per-file linking: in the assembled execution directory every pack
\* file is a link of its own at its relative path, every directory on its
\* path is a plain directory of the execution directory, and no link of the
\* execution directory leads to a directory of the pack.
C24_PerFile ==
  Assembled =>
    /\ \A f \in cached_pack_dir.entries \cap PackFiles :
         /\ Entry(f, "filelink", "pack/" \o f) \in exec_dir.entries
         /\ Parent(f) # "" => Entry(Parent(f), "dir", "") \in exec_dir.entries
    /\ \A e \in exec_dir.entries :
         e.type = "dirlink" => e.target \notin {"pack/" \o f : f \in cached_pack_dir.entries}

\* The marker file of the loader and the libraries directory are there.
MarkerOf(loader) == IF loader = "fabric" THEN "fabric-server-launch.jar" ELSE "user_jvm_args.txt"
ServerComplete(loader, dir) ==
  /\ dir.exists
  /\ MarkerOf(loader) \in dir.entries
  /\ "libraries" \in dir.entries

\* C25 - Server-runtime validator: for fabric and for neoforge
\* validate_server reports no problem exactly for a directory that has the
\* loader's marker file and libraries, and a setup_server that has returned
\* without raising has left such a directory.
C25_Validator ==
  /\ \A loader \in supported_loaders :
       validate_server(loader, cached_dir["server"]) = None
         <=> ServerComplete(loader, cached_dir["server"])
  /\ (pack_info.ok /\ installs["server"] = 1 /\ error = "") =>
       ServerComplete(pack_info.loader, cached_dir["server"])

C25_Witness ==
  /\ pack_info.ok
  /\ pack_info.loader = "neoforge"
  /\ installs["server"] = 1
  /\ error = "installer"
  /\ cached_dir["server"].entries = {"fabric-server-launch.jar", "libraries"}

\* The version parameters of a parsed pack.
Triple(info) == <<info.minecraft_version, info.loader, info.loader_version>>

\* C26 - The server fingerprint detects every parameter change: two packs
\* parsed one after the other whose version parameters differ have
\* different values fed to the hash, and so different fingerprints.
C26_FingerprintInjective ==
  (pack_info.ok /\ prev.info.ok /\ Triple(pack_info) # Triple(prev.info)) =>
    /\ hash(Triple(pack_info)) # hash(Triple(prev.info))
    /\ desired_cache_state["server"] # DesiredState(prev.info)["server"]

\* C27 - Instrumentation injection is selected by the loader only: for
\* fabric one process is started with the java arguments on its command
\* line, for neoforge one process is started with them in JDK_JAVA_OPTIONS
\* and not on the command line, for another loader none is started and
\* RuntimeError is raised; whatever the exit status of the child, it is
\* handed back in a result and nothing is raised.
C27_Injection ==
  /\ child.loader = "fabric" =>
       /\ ~child.out.raised
       /\ child.out.argv[1] = "java"
       /\ SubSeq(child.out.argv, 2, 1 + Len(child.java_args)) = child.java_args
       /\ child.out.env.inherited
  /\ child.loader = "neoforge" =>
       /\ ~child.out.raised
       /\ \A i \in 1..Len(child.out.argv), j \in 1..Len(child.java_args) :
            child.out.argv[i] # child.java_args[j]
       /\ Len(child.java_args) > 0 =>
            /\ "JDK_JAVA_OPTIONS" \in DOMAIN child.out.env.vars
            /\ child.out.env.vars["JDK_JAVA_OPTIONS"] = join(child.java_args)
  /\ child.loader \in supported_loaders =>
       /\ launched = 1
       /\ error \notin {"RuntimeError", "CalledProcessError"}
       /\ pc \notin {"idle", "classify"} \/ (result.bound /\ error = "")
  /\ child.loader \notin supported_loaders \cup {""} =>
       /\ child.out.raised
       /\ child.out.argv = << >>
       /\ launched = 0
       /\ error = "RuntimeError"
       /\ ~result.bound

C27_Witness ==
  /\ child.loader = "neoforge"
  /\ Len(child.java_args) = 2
  /\ child.out.env.vars["JDK_JAVA_OPTIONS"] = "-javaagent:McTestInjector.jar -Xmx2G"
  /\ returncode = 1
  /\ result.bound
  /\ error = ""

====
